---- MODULE Spec2Model ----
(***************************************************************************)
(* Model of the swarm client of session-desktop,                           *)
(* ts/session/snode_api/serviceNodeAPI.ts: the response classifier         *)
(* (checkResponse) and the bounded retry loop of storeOnNode, over the     *)
(* shared node pool, the swarm of the addressed identity and the persisted *)
(* proof-of-work difficulty.                                               *)
(*                                                                         *)
(* One storeOnNode call is in flight at a time; when it has returned or    *)
(* thrown, the next call may start on the state the previous one left.     *)
(* The call is cut at its suspension points: the backoff sleep, the RPC    *)
(* and the settling of the RPC's promise.                                  *)
(***************************************************************************)
EXTENDS Integers, Sequences, FiniteSets, TLC

(***************************************************************************)
(* Bounds of the model and constants of the program.                       *)
(***************************************************************************)
\* difficulty values a node may carry are 1..MaxDifficulty
MaxDifficulty == 2

\* serviceNodeAPI.ts:511
MAX_ACCEPTABLE_FAILURES == 10

\* the service nodes known to the client
Nodes == {"A", "B"}

\* HTTP-like statuses of a node's answer: the four the code tells apart and one other
Statuses == {200, 406, 421, 432, 500}

(***************************************************************************)
(* JavaScript values.                                                      *)
(***************************************************************************)
Undefined == [t |-> "undefined"]
Null == [t |-> "null"]
Num(n) == [t |-> "number", v |-> n]
Arr(s) == [t |-> "array", v |-> s]

\* JavaScript truthiness of the values above ([] is truthy, 0 is not)
Truthy(v) ==
  CASE v.t = "undefined" -> FALSE
    [] v.t = "null" -> FALSE
    [] v.t = "number" -> v.v # 0
    [] OTHER -> TRUE

\* Number.isNaN: true of the number NaN only, which no JSON text denotes
NumberIsNaN(v) == v.t = "NaN"

Range(s) == {s[i] : i \in 1..Len(s)}

\* duplicate-free lists of nodes: the swarms a node can report
SwarmLists ==
  {s \in UNION {[1..n -> Nodes] : n \in 0..Cardinality(Nodes)} :
     \A i, j \in 1..Len(s) : i # j => s[i] # s[j]}

Difficulties == {Num(n) : n \in 1..MaxDifficulty}

(***************************************************************************)
(* The answers of a node.  A body is the text of the answer, given by what *)
(* JSON.parse makes of it: not JSON, the JSON null, or a JSON object with  *)
(* an optional snodes list and an optional difficulty.                     *)
(***************************************************************************)
Bodies ==
  {[t |-> "invalid"], [t |-> "nulltext"]}
    \cup {[t |-> "objecttext", snodes |-> s, difficulty |-> d] :
            s \in {Undefined} \cup {Arr(l) : l \in SwarmLists},
            d \in {Undefined} \cup Difficulties}

\* SnodeResponse: status and body, nothing else
SnodeResponse == {[t |-> "response", status |-> st, body |-> b] : st \in Statuses, b \in Bodies}

\* JSON.parse(body): a SyntaxError, or the value the text denotes
JSONparse(body) ==
  CASE body.t = "invalid" -> [ok |-> FALSE, json |-> Undefined]
    [] body.t = "nulltext" -> [ok |-> TRUE, json |-> Null]
    [] OTHER -> [ok |-> TRUE,
                 json |-> [t |-> "object", snodes |-> body.snodes, difficulty |-> body.difficulty]]

\* an exception: its class and what it carries
Err(name) == [name |-> name, newSwarm |-> <<>>, newDifficulty |-> Undefined, readable |-> TRUE]
WrongSwarmError(newSwarm) == [Err("WrongSwarmError") EXCEPT !.newSwarm = newSwarm]
WrongDifficultyError(newDifficulty) ==
  [Err("WrongDifficultyError") EXCEPT !.newDifficulty = newDifficulty]
HTTPError(readable) == [Err("HTTPError") EXCEPT !.readable = readable]

\* what the transport itself may throw into storeOnNode
TransportErrors ==
  {Err("Error"), Err("NotFoundError")} \cup {HTTPError(r) : r \in BOOLEAN}

\* the ways the promise of snodeRpc settles
RpcResults ==
  {[t |-> "false"]} \cup {[t |-> "throw", error |-> e] : e \in TransportErrors}
    \cup SnodeResponse

NoResult == [t |-> "none"]

(***************************************************************************)
(* checkResponse (serviceNodeAPI.ts:240-261): returns, or throws.          *)
(***************************************************************************)
Returns == [t |-> "return", error |-> Err("none")]
Throws(e) == [t |-> "throw", error |-> e]

\* a variant that keeps only the first node of the list
newSwarmOf_First(json) ==
  IF Truthy(json.snodes) /\ json.snodes.v # <<>> THEN <<json.snodes.v[1]>> ELSE <<>>

\* line 252: const newSwarm = json.snodes ? json.snodes : []
newSwarmOf(json) == IF Truthy(json.snodes) THEN json.snodes.v ELSE <<>>

\* a variant that parses the body only where it reads it
checkResponse_LazyParse(response) ==
  IF response.status = 406
  THEN Throws(Err("TimestampError"))
  ELSE IF response.status \notin {421, 432}
  THEN Returns
  ELSE LET parsed == JSONparse(response.body)
           json == parsed.json
       IN  IF ~parsed.ok
           THEN Throws(Err("SyntaxError"))
           ELSE IF json = Null
           THEN Throws(Err("TypeError"))
           ELSE IF response.status = 421
           THEN Throws(WrongSwarmError(newSwarmOf(json)))
           ELSE Throws(WrongDifficultyError(json.difficulty))

checkResponse(response) ==
  IF response.status = 406
  THEN Throws(Err("TimestampError"))
  ELSE LET parsed == JSONparse(response.body)
           json == parsed.json
       IN  IF ~parsed.ok
           THEN Throws(Err("SyntaxError"))
           ELSE IF response.status = 421
           THEN IF json = Null
                THEN Throws(Err("TypeError"))
                ELSE Throws(WrongSwarmError(newSwarmOf(json)))
           ELSE IF response.status = 432
           THEN IF json = Null
                THEN Throws(Err("TypeError"))
                ELSE Throws(WrongDifficultyError(json.difficulty))
           ELSE Returns

(***************************************************************************)
(* Collaborators of storeOnNode that live in other files of the repository.*)
(***************************************************************************)
\* lokiSnodeAPI.updateSwarmNodes(pubKey, newSwarm): the swarm recorded for pubKey
\* becomes newSwarm
updateSwarmNodes(oldSwarm, newSwarm) == newSwarm

\* snodePool.markUnreachableForPubkey(pubKey, node): node leaves the pool and the
\* swarm of pubKey; what remains of that swarm is returned
markUnreachableForPubkey(p, s, node) ==
  [pool |-> p \ {node}, swarm |-> SelectSeq(s, LAMBDA n : n # node)]

\* the property `difficulty` of a SnodeResponse object: it has none
resDifficulty(res) == Undefined

\* line 147: const sendingData = {}; no code of the module adds a key to it
sendingData == {}

\* params.timestamp of the request
Timestamp == "ts"

(***************************************************************************)
(* One pass of the loop body of storeOnNode (lines 278-343), from the      *)
(* settled RPC on.  ctl says how the pass ends: "continue" (the failure is *)
(* counted and the loop goes on), "return" or "throw"; the other fields    *)
(* are the side effects the pass has had on storage and on the swarm.      *)
(***************************************************************************)
Pass(ctl, value, putDifficulty, d, updateSwarm, s) ==
  [ctl |-> ctl, value |-> value, putDifficulty |-> putDifficulty, newDifficulty |-> d,
   updateSwarm |-> updateSwarm, newSwarm |-> s]

Counted == Pass("continue", "none", FALSE, Undefined, FALSE, <<>>)
Return(value) == Pass("return", value, FALSE, Undefined, FALSE, <<>>)
Throw(name) == Pass("throw", name, FALSE, Undefined, FALSE, <<>>)

\* a variant that hands over the carried list short of its first member
storeOnWrongSwarm_Partial(e) ==
  Pass("throw", "TypeError", FALSE, Undefined, TRUE,
       IF e.newSwarm = <<>> THEN <<>> ELSE Tail(e.newSwarm))

\* a variant that counts the wrong swarm as a failure and lets the loop retry
storeOnWrongSwarm_Retry(e) == Pass("continue", "none", FALSE, Undefined, TRUE, e.newSwarm)

\* lines 320-325: the swarm is updated, then sendingData[params.timestamp].swarm is
\* assigned, which throws a TypeError when sendingData has no such key
storeOnWrongSwarm(e) ==
  IF Timestamp \in sendingData
  THEN Pass("return", "false", FALSE, Undefined, TRUE, e.newSwarm)
  ELSE Pass("throw", "TypeError", FALSE, Undefined, TRUE, e.newSwarm)

\* a variant that rethrows without persisting the difficulty
storeOnWrongDifficulty_NoPut(e) ==
  Pass("throw", "WrongDifficultyError", FALSE, Undefined, FALSE, <<>>)

\* lines 326-331
storeOnWrongDifficulty(e) ==
  Pass("throw", "WrongDifficultyError", ~NumberIsNaN(e.newDifficulty), e.newDifficulty,
       FALSE, <<>>)

\* a variant that counts a timestamp error as one more failure
storeCatch_RetryTimestamp(e) ==
  IF e.name = "WrongSwarmError" THEN storeOnWrongSwarm(e)
  ELSE IF e.name = "WrongDifficultyError" THEN storeOnWrongDifficulty(e)
  ELSE IF e.name = "HTTPError"
  THEN IF e.readable THEN Counted ELSE Throw("HTTPError")
  ELSE Counted

\* lines 313-343: the catch block
storeCatch(e) ==
  IF e.name = "WrongSwarmError" THEN storeOnWrongSwarm(e)
  ELSE IF e.name = "WrongDifficultyError" THEN storeOnWrongDifficulty(e)
  ELSE IF e.name = "NotFoundError" THEN Counted
  ELSE IF e.name = "TimestampError" THEN Throw("TimestampError")
  ELSE IF e.name = "HTTPError"
  THEN IF e.readable THEN Counted ELSE Throw("HTTPError")
  ELSE Counted

\* a variant with the comparison inverted
storeOnStatus_Inverted(snodeRes, ifOk) == IF snodeRes.status = 200 THEN Return("false") ELSE ifOk

\* a variant that counts a rejection as a failure and lets the loop retry
storeOnStatus_Counted(snodeRes, ifOk) == IF snodeRes.status # 200 THEN Counted ELSE ifOk

\* lines 300-302
storeOnStatus(snodeRes, ifOk) == IF snodeRes.status # 200 THEN Return("false") ELSE ifOk

\* lines 304-312
storeOnSuccess(res, currentDifficulty) ==
  IF Truthy(resDifficulty(res)) /\ resDifficulty(res) # currentDifficulty
  THEN Pass("return", "true", TRUE, resDifficulty(res), FALSE, <<>>)
  ELSE Return("true")

\* lines 278-343: the try block and its catch
storePass(rpcResult, currentDifficulty) ==
  IF rpcResult.t = "throw" THEN storeCatch(rpcResult.error)
  ELSE IF rpcResult.t = "false" THEN Counted
  ELSE LET checked == checkResponse(rpcResult)
       IN  IF checked.t = "throw"
           THEN storeCatch(checked.error)
           ELSE storeOnStatus(rpcResult, storeOnSuccess(rpcResult, currentDifficulty))

\* a variant that is off by one
loopContinues_OffByOne(failures) == failures <= MAX_ACCEPTABLE_FAILURES

\* line 270: the loop goes on while the failures are below the ceiling
loopContinues(failures) == failures < MAX_ACCEPTABLE_FAILURES

\* a variant with twice the base delay
backoff_Doubled(failures) == failures * 1000

\* line 277: the backoff before an attempt
backoff(failures) == failures * 500

\* a variant that gives up without evicting
storeGiveUp_NoEviction(p, s, node) == [pool |-> p, swarm |-> s]

\* lines 345-352: giving up evicts the target
storeGiveUp(p, s, node) == markUnreachableForPubkey(p, s, node)

(***************************************************************************)
(* retrieveNextMessages (lines 472-509).  The body of an answer to         *)
(* retrieve may also carry a messages list.                                *)
(***************************************************************************)
\* the swarms an answer to retrieve carries in the model, one of nodes not yet known
RetrieveSwarms == {<<>>, <<"A">>, <<"C", "D">>}

MessageLists == {<<>>, <<"m1">>, <<"m1", "m2">>}

RetrieveBodies ==
  {[t |-> "invalid"], [t |-> "nulltext"]}
    \cup {[t |-> "objecttext", snodes |-> s, difficulty |-> Undefined, messages |-> m] :
            s \in {Undefined} \cup {Arr(l) : l \in RetrieveSwarms},
            m \in {Undefined} \cup {Arr(l) : l \in MessageLists}}

RetrieveResults ==
  {[t |-> "false"]} \cup {[t |-> "throw", error |-> e] : e \in TransportErrors}
    \cup {[t |-> "response", status |-> st, body |-> b] : st \in Statuses, b \in RetrieveBodies}

\* how a call ends: with a value, or with an exception and what it carries
Returned(value) == [kind |-> "return", value |-> value, error |-> "none", newSwarm |-> <<>>]
Threw(e) == [kind |-> "throw", value |-> <<>>, error |-> e.name, newSwarm |-> e.newSwarm]
NoOutcome == [kind |-> "none", value |-> <<>>, error |-> "none", newSwarm |-> <<>>]

\* lines 503-508: JSON.parse(res.body) and json.messages || [], any exception giving []
retrieveMessages(body) ==
  IF body.t # "objecttext" THEN <<>>
  ELSE IF Truthy(body.messages) THEN body.messages.v ELSE <<>>

\* a variant that looks at the status before it calls checkResponse
retrieveNextMessages_StatusFirst(rpcResult) ==
  IF rpcResult.t = "throw" THEN Threw(rpcResult.error)
  ELSE IF rpcResult.t = "false" THEN Returned(<<>>)
  ELSE IF rpcResult.status # 200 THEN Returned(<<>>)
  ELSE LET checked == checkResponse(rpcResult)
       IN  IF checked.t = "throw" THEN Threw(checked.error)
           ELSE Returned(retrieveMessages(rpcResult.body))

\* lines 483-508, from the settled RPC on: exceptions of snodeRpc and of checkResponse
\* bubble up
retrieveNextMessages(rpcResult) ==
  IF rpcResult.t = "throw" THEN Threw(rpcResult.error)
  ELSE IF rpcResult.t = "false" THEN Returned(<<>>)
  ELSE LET checked == checkResponse(rpcResult)
       IN  IF checked.t = "throw" THEN Threw(checked.error)
           ELSE IF rpcResult.status # 200 THEN Returned(<<>>)
           ELSE Returned(retrieveMessages(rpcResult.body))

(***************************************************************************)
(* getSnodesForPubkey (lines 158-218) and getSnodesFromSeedUrl (lines      *)
(* 76-144): both drop the records whose address is 0.0.0.0.                *)
(***************************************************************************)
\* node lists in an answer have at most MaxListLen records
MaxListLen == 2

Ips == {"0.0.0.0", "1.1.1.1", "2.2.2.2"}
Keys == {"k1", "k2"}

ListsOf(S) == UNION {[1..n -> S] : n \in 0..MaxListLen}

\* a record of json.snodes, and a record of result.service_node_states
SwarmRecords == [ip : Ips, pubkey_ed25519 : Keys]
SeedRecords == [public_ip : Ips, pubkey_ed25519 : Keys]

LookupBodies ==
  {[t |-> "invalid"], [t |-> "nulltext"]}
    \cup {[t |-> "objecttext", snodes |-> s] :
            s \in {Undefined} \cup {Arr(l) : l \in ListsOf(SwarmRecords)}}

LookupResults ==
  {[t |-> "false"]} \cup {[t |-> "throw", error |-> e] : e \in TransportErrors}
    \cup {[t |-> "response", status |-> st, body |-> b] : st \in {200, 500}, b \in LookupBodies}

\* a variant that tests public_ip, a field the records of a swarm do not have: undefined
\* differs from '0.0.0.0', so every record is kept
swarmFilter_SeedField(snodes) == SelectSeq(snodes, LAMBDA tSnode : TRUE)

\* lines 201-203
swarmFilter(snodes) == SelectSeq(snodes, LAMBDA tSnode : tSnode.ip # "0.0.0.0")

\* a variant whose outer catch rethrows
getSnodesForPubkey_Rethrows(rpcResult) ==
  IF rpcResult.t = "throw" THEN Threw(rpcResult.error)
  ELSE IF rpcResult.t = "false" THEN Returned(<<>>)
  ELSE IF rpcResult.status # 200 THEN Returned(<<>>)
  ELSE IF rpcResult.body.t # "objecttext" THEN Returned(<<>>)
  ELSE IF ~Truthy(rpcResult.body.snodes) THEN Returned(<<>>)
  ELSE Returned(swarmFilter(rpcResult.body.snodes.v))

\* lines 174-217, from the settled RPC on: every failure gives []
getSnodesForPubkey(rpcResult) ==
  IF rpcResult.t = "throw" THEN Returned(<<>>)
  ELSE IF rpcResult.t = "false" THEN Returned(<<>>)
  ELSE IF rpcResult.status # 200 THEN Returned(<<>>)
  ELSE IF rpcResult.body.t # "objecttext" THEN Returned(<<>>)
  ELSE IF ~Truthy(rpcResult.body.snodes) THEN Returned(<<>>)
  ELSE Returned(swarmFilter(rpcResult.body.snodes.v))

\* the answers of a seed: fetch rejects, or resolves to a response whose json() rejects
\* or gives an object with or without result, with or without service_node_states
SeedJsons ==
  {[t |-> "invalid"], [t |-> "noresult"], [t |-> "nostates"]}
    \cup {[t |-> "states", service_node_states |-> l] : l \in ListsOf(SeedRecords)}

SeedResults ==
  {[t |-> "throw", error |-> Err("FetchError")]}
    \cup {[t |-> "response", status |-> st, contentType |-> ct, json |-> j] :
            st \in {200, 500}, ct \in {"application/json", "text/html"}, j \in SeedJsons}

\* lines 137-139
seedFilter(states) == SelectSeq(states, LAMBDA snode : snode.public_ip # "0.0.0.0")

\* lines 108-143, from the settled fetch on; a rejected fetch is not caught
getSnodesFromSeedUrl(fetched) ==
  IF fetched.t = "throw" THEN Threw(fetched.error)
  ELSE IF fetched.status # 200 THEN Returned(<<>>)
  ELSE IF fetched.contentType # "application/json" THEN Returned(<<>>)
  ELSE IF fetched.json.t # "states" THEN Returned(<<>>)
  ELSE Returned(seedFilter(fetched.json.service_node_states))

\* snodePool.markNodeUnreachable(node): node leaves the pool
markNodeUnreachable(p, node) == p \ {node}

(***************************************************************************)
(* storeOnNode calls in flight together for one pubKey.                    *)
(***************************************************************************)
Calls == {1, 2}

\* what their RPCs settle to: a refusal, a 200, or a 421 with or without a list
ConcResults ==
  {[t |-> "false"]}
    \cup {r \in SnodeResponse : /\ r.status \in {200, 421}
                                /\ r.body.t = "objecttext"
                                /\ r.body.difficulty = Undefined
                                /\ r.status = 200 => r.body.snodes = Undefined}

(***************************************************************************)
(* getVersion(node, retries), lines 23-74.                                 *)
(***************************************************************************)
SNODE_VERSION_RETRIES == 3

\* the probes that may run at the same time
Probes == {1, 2}

\* e.code of what fetch rejects with; "nocode" is an exception without a code, as the
\* SyntaxError of result.json() or the TypeError of reading null.version
ErrorCodes == {"ECONNREFUSED", "ECONNRESET", "ETIMEDOUT"}

\* what await result.json() settles to: a rejection, null, an object without a
\* version, an object with one
VersionData == {"invalid", "null", "noversion", "version"}

\* a variant that retries while retries <= SNODE_VERSION_RETRIES
getVersionCatch_OneMore(code, retries) ==
  IF code = "ECONNREFUSED" THEN [ctl |-> "return", mark |-> TRUE]
  ELSE IF retries <= SNODE_VERSION_RETRIES THEN [ctl |-> "retry", mark |-> FALSE]
  ELSE [ctl |-> "return", mark |-> TRUE]

\* lines 43-72: the catch block
getVersionCatch(code, retries) ==
  IF code = "ECONNREFUSED" THEN [ctl |-> "return", mark |-> TRUE]
  ELSE IF retries < SNODE_VERSION_RETRIES THEN [ctl |-> "retry", mark |-> FALSE]
  ELSE [ctl |-> "return", mark |-> TRUE]

(***************************************************************************)
(* State.                                                                  *)
(***************************************************************************)
VARIABLES
  pool,                \* the node pool: the nodes held reachable
  swarm,               \* the swarm recorded for params.pubKey, a list of nodes
  difficulty,          \* window.storage 'PoWDifficulty'
  pc,                  \* where the storeOnNode call stands
  targetNode,          \* the node the call was given
  successiveFailures,  \* the counter of the loop
  result,              \* the last settled result of snodeRpc in this call
  outcome,             \* how the call ended: "true", "false" or the error thrown
  dispatches,          \* RPCs this call has dispatched
  lastSleep,           \* milliseconds of the last sleepFor of this call
  totalSleep,          \* milliseconds slept by this call
  evictions,           \* calls of markUnreachableForPubkey made by this call
  transientOnly,       \* every failure this call has counted came from the transport
  qop,                 \* the other call in flight: "retrieve", "lookup", "seed" or "none"
  qpc,                 \* where that call stands
  qnode,               \* the node that call talks to
  qresult,             \* the settled result of its RPC or fetch
  qout,                \* how that call ended
  tls,                 \* process.env.NODE_TLS_REJECT_UNAUTHORIZED
  vpc,                 \* where each getVersion probe stands
  vnode,               \* the node each probe asks
  vretries,            \* the retries parameter of the probe's current getVersion frame
  vrequests,           \* fetches the probe has issued since it was called
  vcode,               \* e.code of the exception the probe's current frame has caught
  vout,                \* what the probe returned: a version, "false" or "none" yet
  cpc,                 \* where each of the concurrent storeOnNode calls stands
  ctarget,             \* the targetNode of each of them
  cfail,               \* the successiveFailures of each of them
  cresult              \* the last settled result of snodeRpc in each of them

queryVars == <<qop, qpc, qnode, qresult, qout>>

versionVars == <<tls, vpc, vnode, vretries, vrequests, vcode, vout>>

\* the state of what runs beside storeOnNode and the retrieve, lookup and seed calls
concVars == <<cpc, ctarget, cfail, cresult>>

rest == <<versionVars, concVars>>

others == <<queryVars, rest>>

vars ==
  <<pool, swarm, difficulty, pc, targetNode, successiveFailures, result, outcome,
    dispatches, lastSleep, totalSleep, evictions, transientOnly, others>>

shared == <<pool, swarm, difficulty>>

\* no retrieve, swarm lookup or seed fetch is in flight
QueryIdle ==
  /\ qop = "none"
  /\ qpc = "idle"
  /\ qnode = "A"
  /\ qresult = NoResult
  /\ qout = NoOutcome

\* no getVersion probe is running; certificate verification is on, Node's default
VersionIdle ==
  /\ tls = "1"
  /\ vpc = [p \in Probes |-> "idle"]
  /\ vnode = [p \in Probes |-> "A"]
  /\ vretries = [p \in Probes |-> 0]
  /\ vrequests = [p \in Probes |-> 0]
  /\ vcode = [p \in Probes |-> "none"]
  /\ vout = [p \in Probes |-> "none"]

\* none of the concurrent storeOnNode calls is in flight
ConcIdle ==
  /\ cpc = [c \in Calls |-> "idle"]
  /\ ctarget = [c \in Calls |-> "A"]
  /\ cfail = [c \in Calls |-> 0]
  /\ cresult = [c \in Calls |-> NoResult]

OthersIdle == QueryIdle /\ VersionIdle /\ ConcIdle

Init ==
  /\ pool = Nodes
  /\ swarm \in SwarmLists
  /\ difficulty \in {Null} \cup Difficulties
  /\ pc = "idle"
  /\ targetNode \in Nodes
  /\ successiveFailures = 0
  /\ result = NoResult
  /\ outcome = "none"
  /\ dispatches = 0
  /\ lastSleep = 0
  /\ totalSleep = 0
  /\ evictions = 0
  /\ transientOnly = TRUE
  /\ OthersIdle

(***************************************************************************)
(* storeOnNode(targetNode, params), lines 263-353.                         *)
(***************************************************************************)
\* the call is made: line 269, and the loop is entered (0 < 10) up to the sleep
StoreOnNode ==
  /\ pc \in {"idle", "done"}
  /\ \E node \in Nodes : targetNode' = node
  /\ successiveFailures' = 0
  /\ pc' = "sleeping"
  /\ lastSleep' = backoff(0)
  /\ totalSleep' = backoff(0)
  /\ result' = NoResult
  /\ outcome' = "none"
  /\ dispatches' = 0
  /\ evictions' = 0
  /\ transientOnly' = TRUE
  /\ UNCHANGED <<shared, others>>

\* line 277 is over, line 279 dispatches the RPC to targetNode
Dispatch ==
  /\ pc = "sleeping"
  /\ pc' = "awaiting"
  /\ dispatches' = dispatches + 1
  /\ UNCHANGED <<shared, targetNode, successiveFailures, result, outcome, lastSleep,
                 totalSleep, evictions, transientOnly, others>>

\* the promise of snodeRpc settles
RpcSettles ==
  /\ pc = "awaiting"
  /\ \E r \in RpcResults : result' = r
  /\ pc' = "settled"
  /\ UNCHANGED <<shared, targetNode, successiveFailures, outcome, dispatches, lastSleep,
                 totalSleep, evictions, transientOnly, others>>

\* lines 280-353: the rest of the pass and, when the loop ends, of the call
HandleResult ==
  /\ pc = "settled"
  /\ LET pass == storePass(result, difficulty)
         afterSwarm == IF pass.updateSwarm THEN updateSwarmNodes(swarm, pass.newSwarm) ELSE swarm
         failures == successiveFailures + 1
     IN  /\ difficulty' = IF pass.putDifficulty THEN pass.newDifficulty ELSE difficulty
         /\ UNCHANGED <<targetNode, dispatches, result, others>>
         /\ IF pass.ctl # "continue"
            THEN /\ pc' = "done"
                 /\ outcome' = pass.value
                 /\ swarm' = afterSwarm
                 /\ UNCHANGED <<pool, successiveFailures, lastSleep, totalSleep, evictions,
                                transientOnly>>
            ELSE /\ successiveFailures' = failures
                 /\ transientOnly' = (transientOnly /\ result.t \in {"false", "throw"})
                 /\ IF loopContinues(failures)
                    THEN /\ pc' = "sleeping"
                         /\ lastSleep' = backoff(failures)
                         /\ totalSleep' = totalSleep + backoff(failures)
                         /\ swarm' = afterSwarm
                         /\ UNCHANGED <<pool, outcome, evictions>>
                    ELSE LET left == storeGiveUp(pool, afterSwarm, targetNode)
                         IN  /\ pc' = "done"
                             /\ outcome' = "false"
                             /\ pool' = left.pool
                             /\ swarm' = left.swarm
                             /\ evictions' = evictions + 1
                             /\ UNCHANGED <<lastSleep, totalSleep>>

Next == StoreOnNode \/ Dispatch \/ RpcSettles \/ HandleResult

Spec == Init /\ [][Next]_vars

\* every sleep ends, every RPC settles (the transport has its own timeout) and the
\* event loop runs the continuation; nothing obliges a caller to start a call
FairSpec == Spec /\ WF_vars(Dispatch) /\ WF_vars(RpcSettles) /\ WF_vars(HandleResult)

(***************************************************************************)
(* storeOnNode from the state of the scenario of the specification: three  *)
(* nodes in the pool, two of them the swarm of the identity, cached        *)
(* difficulty 1, and the call given node A.                                *)
(***************************************************************************)
ScenarioInit ==
  /\ pool = {"A", "B", "C"}
  /\ swarm = <<"A", "B">>
  /\ difficulty = Num(1)
  /\ pc = "idle"
  /\ targetNode = "A"
  /\ successiveFailures = 0
  /\ result = NoResult
  /\ outcome = "none"
  /\ dispatches = 0
  /\ lastSleep = 0
  /\ totalSleep = 0
  /\ evictions = 0
  /\ transientOnly = TRUE
  /\ OthersIdle

ScenarioSpec == ScenarioInit /\ [][Next]_vars

(***************************************************************************)
(* The other calls of the module, one in flight at a time and none while a *)
(* storeOnNode call is in flight.  Each is cut at its one await of the     *)
(* network.                                                                *)
(***************************************************************************)
storeVars ==
  <<pc, targetNode, successiveFailures, result, outcome, dispatches, lastSleep, totalSleep,
    evictions, transientOnly>>

\* the caller has the result of storeOnNode: nothing of the call is left
StoreReturns ==
  /\ pc = "done"
  /\ pc' = "idle"
  /\ successiveFailures' = 0
  /\ result' = NoResult
  /\ outcome' = "none"
  /\ dispatches' = 0
  /\ lastSleep' = 0
  /\ totalSleep' = 0
  /\ evictions' = 0
  /\ transientOnly' = TRUE
  /\ UNCHANGED <<shared, targetNode, others>>

\* retrieveNextMessages(nodeData, lastHash, pubkey): line 483 dispatches the RPC
RetrieveCall ==
  /\ pc = "idle"
  /\ qpc \in {"idle", "done"}
  /\ qop' = "retrieve"
  /\ \E node \in Nodes : qnode' = node
  /\ qpc' = "awaiting"
  /\ qresult' = NoResult
  /\ qout' = NoOutcome
  /\ UNCHANGED <<shared, storeVars, rest>>

\* lines 483-508: the RPC settles and the call returns or throws
RetrieveSettles ==
  /\ qop = "retrieve"
  /\ qpc = "awaiting"
  /\ \E r \in RetrieveResults :
       /\ qresult' = r
       /\ qout' = retrieveNextMessages(r)
  /\ qpc' = "done"
  /\ UNCHANGED <<shared, storeVars, qop, qnode, rest>>

\* getSnodesForPubkey(pubKey): line 165 takes a random node of the pool and line 166
\* dispatches the RPC; with no node to take, the catch block returns []
LookupCall ==
  /\ pc = "idle"
  /\ qpc \in {"idle", "done"}
  /\ qop' = "lookup"
  /\ qresult' = NoResult
  /\ IF pool = {}
     THEN /\ qpc' = "done"
          /\ qout' = Returned(<<>>)
          /\ qnode' = qnode
     ELSE /\ qpc' = "awaiting"
          /\ qout' = NoOutcome
          /\ \E node \in pool : qnode' = node
  /\ UNCHANGED <<shared, storeVars, rest>>

\* lines 166-217: the RPC settles; when it rejects, the node is marked unreachable
LookupSettles ==
  /\ qop = "lookup"
  /\ qpc = "awaiting"
  /\ \E r \in LookupResults :
       /\ qresult' = r
       /\ qout' = getSnodesForPubkey(r)
       /\ pool' = IF r.t = "throw" THEN markNodeUnreachable(pool, qnode) ELSE pool
  /\ qpc' = "done"
  /\ UNCHANGED <<swarm, difficulty, storeVars, qop, qnode, rest>>

\* getSnodesFromSeedUrl(urlObj): line 108 fetches from the seed
SeedCall ==
  /\ pc = "idle"
  /\ qpc \in {"idle", "done"}
  /\ qop' = "seed"
  /\ qpc' = "awaiting"
  /\ qresult' = NoResult
  /\ qout' = NoOutcome
  /\ UNCHANGED <<shared, storeVars, qnode, rest>>

\* lines 108-143: the fetch settles
SeedSettles ==
  /\ qop = "seed"
  /\ qpc = "awaiting"
  /\ \E r \in SeedResults :
       /\ qresult' = r
       /\ qout' = getSnodesFromSeedUrl(r)
  /\ qpc' = "done"
  /\ UNCHANGED <<shared, storeVars, qop, qnode, rest>>

\* the caller has the result of the call: nothing of it is left
QueryReturns ==
  /\ qpc = "done"
  /\ qop' = "none"
  /\ qpc' = "idle"
  /\ qnode' = "A"
  /\ qresult' = NoResult
  /\ qout' = NoOutcome
  /\ UNCHANGED <<shared, storeVars, rest>>

ApiStoreOnNode == qpc = "idle" /\ StoreOnNode

ApiNext ==
  \/ ApiStoreOnNode
  \/ Dispatch
  \/ RpcSettles
  \/ HandleResult
  \/ StoreReturns
  \/ RetrieveCall
  \/ RetrieveSettles
  \/ LookupCall
  \/ LookupSettles
  \/ SeedCall
  \/ SeedSettles
  \/ QueryReturns

\* store, retrieve, swarm lookup and seed fetch, one call after the other
ApiSpec == Init /\ [][ApiNext]_vars

(***************************************************************************)
(* getVersion probes, any number of Probes at a time.  A probe is cut at   *)
(* its awaits: the fetch, result.json() and the sleep before a retry.      *)
(***************************************************************************)
versionRest ==
  <<swarm, difficulty, storeVars, queryVars, concVars>>

\* lines 31-35 of a frame: the flag is set to '0' and the fetch is issued
GetVersion(p) ==
  /\ vpc[p] = "idle"
  /\ \E node \in Nodes : vnode' = [vnode EXCEPT ![p] = node]
  /\ tls' = "0"
  /\ vpc' = [vpc EXCEPT ![p] = "fetching"]
  /\ vretries' = [vretries EXCEPT ![p] = 0]
  /\ vrequests' = [vrequests EXCEPT ![p] = 1]
  /\ vcode' = [vcode EXCEPT ![p] = "none"]
  /\ vout' = [vout EXCEPT ![p] = "none"]
  /\ UNCHANGED <<pool, versionRest>>

\* lines 43-72 for probe p having caught an exception with this code
VersionCatch(p, code) ==
  LET caught == getVersionCatch(code, vretries[p])
  IN  /\ vcode' = [vcode EXCEPT ![p] = code]
      /\ IF caught.ctl = "retry"
         THEN /\ vpc' = [vpc EXCEPT ![p] = "sleeping"]
              /\ UNCHANGED <<pool, vout>>
         ELSE /\ vpc' = [vpc EXCEPT ![p] = "done"]
              /\ vout' = [vout EXCEPT ![p] = "false"]
              /\ pool' = IF caught.mark THEN markNodeUnreachable(pool, vnode[p]) ELSE pool

\* the fetch resolves: line 36 sets the flag back and line 37 reads the body
FetchResolves(p) ==
  /\ vpc[p] = "fetching"
  /\ tls' = "1"
  /\ vpc' = [vpc EXCEPT ![p] = "reading"]
  /\ UNCHANGED <<pool, vnode, vretries, vrequests, vcode, vout, versionRest>>

\* the fetch rejects: line 36 is skipped and the catch block runs
FetchRejects(p) ==
  /\ vpc[p] = "fetching"
  /\ \E code \in ErrorCodes : VersionCatch(p, code)
  /\ UNCHANGED <<tls, vnode, vretries, vrequests, versionRest>>

\* result.json() settles: lines 37-42, or the catch block when it rejects or gives null
JsonSettles(p) ==
  /\ vpc[p] = "reading"
  /\ \E data \in VersionData :
       IF data \in {"invalid", "null"}
       THEN VersionCatch(p, "nocode")
       ELSE /\ vpc' = [vpc EXCEPT ![p] = "done"]
            /\ vout' = [vout EXCEPT ![p] = IF data = "version" THEN "1.0.0" ELSE "false"]
            /\ UNCHANGED <<pool, vcode>>
  /\ UNCHANGED <<tls, vnode, vretries, vrequests, versionRest>>

\* line 62 is over: line 63 calls getVersion(node, retries + 1), whose lines 31-35 run
SleepOver(p) ==
  /\ vpc[p] = "sleeping"
  /\ tls' = "0"
  /\ vpc' = [vpc EXCEPT ![p] = "fetching"]
  /\ vretries' = [vretries EXCEPT ![p] = vretries[p] + 1]
  /\ vrequests' = [vrequests EXCEPT ![p] = vrequests[p] + 1]
  /\ vcode' = [vcode EXCEPT ![p] = "none"]
  /\ UNCHANGED <<pool, vnode, vout, versionRest>>

\* the caller has the result of the probe: nothing of it is left
VersionReturns(p) ==
  /\ vpc[p] = "done"
  /\ vpc' = [vpc EXCEPT ![p] = "idle"]
  /\ vnode' = [vnode EXCEPT ![p] = "A"]
  /\ vretries' = [vretries EXCEPT ![p] = 0]
  /\ vrequests' = [vrequests EXCEPT ![p] = 0]
  /\ vcode' = [vcode EXCEPT ![p] = "none"]
  /\ vout' = [vout EXCEPT ![p] = "none"]
  /\ UNCHANGED <<pool, tls, versionRest>>

VersionNext ==
  \E p \in Probes :
    \/ GetVersion(p)
    \/ FetchResolves(p)
    \/ FetchRejects(p)
    \/ JsonSettles(p)
    \/ SleepOver(p)
    \/ VersionReturns(p)

\* no store, retrieve, lookup or seed call runs beside the probes
VersionInit ==
  /\ Init
  /\ swarm = <<"A", "B">>
  /\ difficulty = Null
  /\ targetNode = "A"

VersionSpec == VersionInit /\ [][VersionNext]_vars

(***************************************************************************)
(* Calls storeOnNode calls for the same pubKey, interleaved at their       *)
(* awaits.  A step of a call runs from one settled RPC to the next await   *)
(* of the network or to the end of the call; updateSwarmNodes and          *)
(* markUnreachableForPubkey are each one mutation of the swarm.            *)
(***************************************************************************)
concRest == <<storeVars, queryVars, versionVars>>

\* lines 263-279: the call is made and its first RPC dispatched
ConcCall(c) ==
  /\ cpc[c] = "idle"
  /\ \E node \in Nodes : ctarget' = [ctarget EXCEPT ![c] = node]
  /\ cpc' = [cpc EXCEPT ![c] = "awaiting"]
  /\ cfail' = [cfail EXCEPT ![c] = 0]
  /\ cresult' = [cresult EXCEPT ![c] = NoResult]
  /\ UNCHANGED <<shared, concRest>>

\* lines 280-353 and 270-279: the RPC settles, the pass runs, and the call ends or
\* counts the failure, sleeps and dispatches again
ConcSettles(c) ==
  /\ cpc[c] = "awaiting"
  /\ \E r \in ConcResults :
       LET pass == storePass(r, difficulty)
           afterSwarm == IF pass.updateSwarm THEN updateSwarmNodes(swarm, pass.newSwarm)
                         ELSE swarm
           failures == cfail[c] + 1
       IN  /\ cresult' = [cresult EXCEPT ![c] = r]
           /\ difficulty' = IF pass.putDifficulty THEN pass.newDifficulty ELSE difficulty
           /\ IF pass.ctl # "continue"
              THEN /\ cpc' = [cpc EXCEPT ![c] = "done"]
                   /\ swarm' = afterSwarm
                   /\ UNCHANGED <<pool, cfail>>
              ELSE /\ cfail' = [cfail EXCEPT ![c] = failures]
                   /\ IF loopContinues(failures)
                      THEN /\ swarm' = afterSwarm
                           /\ UNCHANGED <<pool, cpc>>
                      ELSE LET left == storeGiveUp(pool, afterSwarm, ctarget[c])
                           IN  /\ cpc' = [cpc EXCEPT ![c] = "done"]
                               /\ pool' = left.pool
                               /\ swarm' = left.swarm
  /\ UNCHANGED <<ctarget, concRest>>

\* the caller has the result of the call: nothing of it is left
ConcReturns(c) ==
  /\ cpc[c] = "done"
  /\ cpc' = [cpc EXCEPT ![c] = "idle"]
  /\ ctarget' = [ctarget EXCEPT ![c] = "A"]
  /\ cfail' = [cfail EXCEPT ![c] = 0]
  /\ cresult' = [cresult EXCEPT ![c] = NoResult]
  /\ UNCHANGED <<shared, concRest>>

ConcNext == \E c \in Calls : ConcCall(c) \/ ConcSettles(c) \/ ConcReturns(c)

\* the swarm is resolved and nothing else runs
ConcInit ==
  /\ Init
  /\ swarm = <<"A", "B">>
  /\ difficulty = Null
  /\ targetNode = "A"

ConcSpec == ConcInit /\ [][ConcNext]_vars

(***************************************************************************)
(* Shorthands for the claims.                                              *)
(***************************************************************************)
\* the pass about to run handles a response of this status
Handling(status) == pc = "settled" /\ result.t = "response" /\ result.status = status

\* the call has ended, and the last thing it handled was a response of this status
EndedOn(status) == pc = "done" /\ result.t = "response" /\ result.status = status

\* the body of the response parses to an object
ObjectBody == result.body.t = "objecttext"

\* the body is an object carrying a non-empty snodes list
CarriesSwarm == ObjectBody /\ result.body.snodes.t = "array" /\ result.body.snodes.v # <<>>

\* the body is an object whose snodes list is empty or absent
CarriesNoSwarm ==
  ObjectBody /\ (result.body.snodes.t = "undefined" \/ result.body.snodes = Arr(<<>>))

\* the body is an object carrying a difficulty
CarriesDifficulty == ObjectBody /\ result.body.difficulty \in Difficulties

(***************************************************************************)
(* C1: every storeOnNode call ends, whatever the node answers and however  *)
(* the transport fails; it dispatches at most 10 RPCs before it returns or *)
(* throws, and its failure counter stays within 0..10.  (Under FairSpec.)  *)
(***************************************************************************)
C1_BoundedAndTerminates ==
  /\ [](successiveFailures \in 0..10 /\ dispatches <= 10)
  /\ (pc = "sleeping" ~> pc = "done")

\* a call that used all ten dispatches and ended
C1_Witness == pc = "done" /\ dispatches = 10 /\ successiveFailures = 10

(***************************************************************************)
(* C2: after N < 10 consecutive transient failures, an attempt that gets a *)
(* status 200 with a body that parses makes storeOnNode return true, and   *)
(* no node is evicted.                                                     *)
(***************************************************************************)
C2_SuccessAfterTransientFailures ==
  [][(Handling(200) /\ JSONparse(result.body).ok /\ transientOnly
        /\ successiveFailures \in 0..9)
       => (/\ pc' = "done"
           /\ outcome' = "true"
           /\ evictions' = 0
           /\ pool' = pool
           /\ swarm' = swarm)]_vars

\* nine transport failures, then a success
C2_Witness ==
  /\ EndedOn(200)
  /\ outcome = "true"
  /\ successiveFailures = 9
  /\ transientOnly
  /\ dispatches = 10

(***************************************************************************)
(* C3: a store operation that reaches ten consecutive failures reports     *)
(* failure, and by then its target node has been removed from the node     *)
(* pool and from the swarm of the identity.                                *)
(***************************************************************************)
C3_ExhaustionEvicts ==
  [][(pc = "settled" /\ successiveFailures' = 10)
       => (/\ pc' = "done"
           /\ outcome' = "false"
           /\ evictions' = 1
           /\ pool' = pool \ {targetNode}
           /\ targetNode \notin Range(swarm')
           /\ Range(swarm') = Range(swarm) \ {targetNode})]_vars

\* the tenth failure has been counted: the target A is in neither the pool nor the
\* swarm, and the other node is in both
C3_Witness ==
  /\ pc = "done"
  /\ successiveFailures = 10
  /\ outcome = "false"
  /\ targetNode = "A"
  /\ pool = {"B"}
  /\ swarm = <<"B">>

(***************************************************************************)
(* C4: a status 421 with a non-empty replacement list makes the swarm      *)
(* recorded for the identity exactly that list: nothing of the old swarm   *)
(* is kept or merged in.                                                   *)
(***************************************************************************)
C4_WrongSwarmReplaces ==
  [][(Handling(421) /\ CarriesSwarm) => swarm' = result.body.snodes.v]_vars

\* the node answered 421 with [B, A] and that is now the swarm
C4_Witness ==
  /\ EndedOn(421)
  /\ CarriesSwarm
  /\ result.body.snodes.v = <<"B", "A">>
  /\ swarm = <<"B", "A">>

(***************************************************************************)
(* C5: a status 406 is never retried: the pass that handles it ends the    *)
(* call with the timestamp error, with no further dispatch and no further  *)
(* sleep; when it answers the first attempt, one RPC was dispatched in all.*)
(***************************************************************************)
C5_ClockSkewIsFatal ==
  [][/\ Handling(406)
        => (/\ pc' = "done"
            /\ outcome' = "TimestampError"
            /\ dispatches' = dispatches
            /\ totalSleep' = totalSleep
            /\ successiveFailures' = successiveFailures
            /\ (successiveFailures = 0 => dispatches' = 1))
     /\ (pc = "done" /\ outcome = "TimestampError")
        => (dispatches' = 0 /\ outcome' = "none")]_vars

\* a 406 to the first attempt: one dispatch, no sleep
C5_Witness ==
  /\ EndedOn(406)
  /\ outcome = "TimestampError"
  /\ dispatches = 1
  /\ totalSleep = 0

(***************************************************************************)
(* C6: a status 432 sets the persisted difficulty to the value it carries, *)
(* whatever the value before; a second 432 carrying the same value leaves  *)
(* the persisted value as the first one left it.                           *)
(***************************************************************************)
C6_WrongDifficultyPersists ==
  [][(Handling(432) /\ CarriesDifficulty)
       => (/\ difficulty' = result.body.difficulty
           /\ (difficulty = result.body.difficulty => difficulty' = difficulty))]_vars

\* a 432 carrying 2 has been handled and 2 is what is persisted
C6_Witness ==
  /\ EndedOn(432)
  /\ CarriesDifficulty
  /\ result.body.difficulty = Num(2)
  /\ difficulty = Num(2)
  /\ outcome = "WrongDifficultyError"

(***************************************************************************)
(* C7: a status 200 whose payload carries a difficulty other than the      *)
(* persisted one makes the persisted difficulty that value, and the call   *)
(* still returns true.                                                     *)
(***************************************************************************)
C7_SuccessUpdatesDifficulty ==
  [][(Handling(200) /\ CarriesDifficulty /\ result.body.difficulty # difficulty)
       => (difficulty' = result.body.difficulty /\ outcome' = "true")]_vars

C9_WrongSwarmRetries ==
  [][(Handling(421) /\ CarriesSwarm)
       => (/\ swarm' = result.body.snodes.v
           /\ successiveFailures' = successiveFailures + 1
           /\ (successiveFailures' < 10 => pc' = "sleeping"))]_vars

(***************************************************************************)
(* C9, amended: on a status 421 with a non-empty replacement list the      *)
(* store operation replaces the swarm and ends, unsuccessfully: the        *)
(* failure counter is not incremented and nothing is dispatched again.     *)
(***************************************************************************)
C9_WrongSwarmEnds ==
  [][(Handling(421) /\ CarriesSwarm)
       => (/\ swarm' = result.body.snodes.v
           /\ successiveFailures' = successiveFailures
           /\ dispatches' = dispatches
           /\ pc' = "done"
           /\ outcome' \in {"false", "TypeError"}
           /\ evictions' = 0)]_vars

\* after three counted failures the fourth attempt was answered 421 with [B]
C9_Witness ==
  /\ EndedOn(421)
  /\ CarriesSwarm
  /\ swarm = <<"B">>
  /\ successiveFailures = 3
  /\ dispatches = 4

(***************************************************************************)
(* C10, as claimed: a response with a status other than 200, 406, 421 and  *)
(* 432 increments the failure counter and, below the ceiling, is retried   *)
(* against the same node; the operation gives up, and evicts, only at the  *)
(* ceiling.                                                                *)
(***************************************************************************)
C10_RejectionRetries ==
  [][(pc = "settled" /\ result.t = "response"
        /\ result.status \notin {200, 406, 421, 432})
       => (/\ successiveFailures' = successiveFailures + 1
           /\ targetNode' = targetNode
           /\ (successiveFailures' < 10 => pc' = "sleeping")
           /\ (pc' = "done" => (successiveFailures' = 10 /\ evictions' = 1)))]_vars

(***************************************************************************)
(* C10, amended: a response with a status other than 200, 406, 421 and 432 *)
(* whose body parses as JSON ends the operation at once with the result    *)
(* false: the failure counter is not incremented, nothing is retried and   *)
(* nothing is evicted.  Only when its body does not parse is it counted as *)
(* a failure, retried against the same node below the ceiling and given up *)
(* with an eviction at the ceiling.                                        *)
(***************************************************************************)
C10_RejectionEnds ==
  [][(pc = "settled" /\ result.t = "response"
        /\ result.status \notin {200, 406, 421, 432})
       => IF JSONparse(result.body).ok
          THEN /\ pc' = "done"
               /\ outcome' = "false"
               /\ successiveFailures' = successiveFailures
               /\ dispatches' = dispatches
               /\ evictions' = 0
               /\ shared' = shared
          ELSE /\ successiveFailures' = successiveFailures + 1
               /\ targetNode' = targetNode
               /\ (successiveFailures' < 10 => pc' = "sleeping")
               /\ (pc' = "done" => (successiveFailures' = 10 /\ evictions' = 1))]_vars

\* a status 500 with a JSON body ended the call at its first attempt, nothing evicted
C10_Witness ==
  /\ EndedOn(500)
  /\ JSONparse(result.body).ok
  /\ outcome = "false"
  /\ successiveFailures = 0
  /\ dispatches = 1
  /\ evictions = 0
  /\ pool = Nodes

C14_EmptySwarmIsDistinct ==
  (pc = "done" /\ successiveFailures = 10) => (outcome = "false" <=> swarm # <<>>)

(***************************************************************************)
(* C14, amended: when the eviction on giving up leaves the swarm empty,    *)
(* the operation returns the same false as an ordinary exhaustion; the     *)
(* number of remaining swarm nodes is only logged.                         *)
(***************************************************************************)
C14_EmptySwarmReturnsFalse ==
  [][(pc = "settled" /\ successiveFailures' = 10 /\ Range(swarm) \subseteq {targetNode})
       => (pc' = "done" /\ swarm' = <<>> /\ outcome' = "false")]_vars

\* the target was the only member: the swarm is empty and the result is false
C14_Witness ==
  /\ pc = "done"
  /\ successiveFailures = 10
  /\ evictions = 1
  /\ swarm = <<>>
  /\ outcome = "false"
  /\ pool = Nodes \ {targetNode}

(***************************************************************************)
(* C16: the sleep before an attempt is the failure counter times 500 ms:   *)
(* 0 before the first attempt, 500 more after each counted failure, never  *)
(* more than 4500 ms, and at most 22500 ms over one operation.             *)
(***************************************************************************)
C16_LinearBackoff ==
  LET slept == IF successiveFailures = 10 THEN 9 ELSE successiveFailures
  IN  /\ lastSleep = slept * 500
      /\ totalSleep = 250 * slept * (slept + 1)
      /\ lastSleep <= 4500
      /\ totalSleep <= 22500
      /\ (dispatches = 0 => lastSleep = 0)

\* the tenth attempt is under way: 4500 ms was the last sleep and 22500 ms the sum
C16_Witness ==
  /\ pc = "awaiting"
  /\ successiveFailures = 9
  /\ dispatches = 10
  /\ lastSleep = 4500
  /\ totalSleep = 22500

(***************************************************************************)
(* C17, as claimed: a status 200 whose body does not parse or lacks the    *)
(* expected field is never reported as success: it is counted as one       *)
(* failure and retried, and one such response does not end the operation.  *)
(***************************************************************************)
C17_MalformedSuccessIsRetried ==
  [][(Handling(200) /\ ~CarriesDifficulty)
       => (/\ outcome' # "true"
           /\ successiveFailures' = successiveFailures + 1
           /\ (successiveFailures' < 10 => pc' = "sleeping"))]_vars

(***************************************************************************)
(* C17, amended: a status 200 whose body does not parse is never reported  *)
(* as success: it is counted as one failure and retried against the same   *)
(* node, and below the ceiling it does not end the operation.  A status    *)
(* 200 whose body parses but carries no difficulty is a success: the call  *)
(* returns true.                                                           *)
(***************************************************************************)
C17_UnparseableSuccessIsRetried ==
  [][(Handling(200) /\ ~CarriesDifficulty)
       => IF JSONparse(result.body).ok
          THEN pc' = "done" /\ outcome' = "true"
          ELSE /\ outcome' # "true"
               /\ successiveFailures' = successiveFailures + 1
               /\ targetNode' = targetNode
               /\ (successiveFailures' < 10 => (pc' = "sleeping" /\ outcome' = "none"))]_vars

\* the first attempt got a 200 that does not parse: one failure counted, the call goes on
C17_Witness ==
  /\ pc = "sleeping"
  /\ result.t = "response"
  /\ result.status = 200
  /\ result.body.t = "invalid"
  /\ successiveFailures = 1
  /\ dispatches = 1
  /\ outcome = "none"

(***************************************************************************)
(* Shorthands for the claims about retrieve, swarm lookup and seed fetch.  *)
(***************************************************************************)
\* this step settles the RPC of the retrieve in flight with a response of this status
RetrieveGets(status) ==
  /\ qop = "retrieve"
  /\ qpc = "awaiting"
  /\ qresult'.t = "response"
  /\ qresult'.status = status

\* the call of this kind has ended
QueryEnded(op) == qop = op /\ qpc = "done"

\* the places of the records of a list whose address is not the placeholder, and the
\* list of those records in their order
KeptPlaces(addresses) == {i \in 1..Len(addresses) : addresses[i] # "0.0.0.0"}
KthPlace(places, k) == CHOOSE i \in places : Cardinality({j \in places : j <= i}) = k
IsListWithoutPlaceholders(out, in, addresses) ==
  /\ Len(out) = Cardinality(KeptPlaces(addresses))
  /\ \A k \in 1..Len(out) : out[k] = in[KthPlace(KeptPlaces(addresses), k)]

(***************************************************************************)
(* C12, as claimed: a retrieve against node B answered 421 with snodes     *)
(* [C, D] replaces the swarm by [C, D] and retries against C or D; a 200   *)
(* with an empty messages list makes the retrieve succeed with an empty    *)
(* list.                                                                   *)
(***************************************************************************)
C12_RetrieveFollowsNewSwarm ==
  [][/\ (RetrieveGets(421) /\ qnode = "B" /\ qresult'.body.t = "objecttext"
           /\ qresult'.body.snodes = Arr(<<"C", "D">>))
        => (swarm' = <<"C", "D">> /\ qpc' = "awaiting" /\ qnode' \in {"C", "D"})
     /\ (RetrieveGets(200) /\ qresult'.body.t = "objecttext"
           /\ qresult'.body.messages = Arr(<<>>))
        => qout' = Returned(<<>>)]_vars

(***************************************************************************)
(* C12, amended: a retrieve against node B answered 421 with snodes [C, D] *)
(* ends retrieveNextMessages with a WrongSwarmError that carries [C, D];   *)
(* the function neither replaces the swarm nor retries, which is left to   *)
(* its caller.  A 200 with an empty messages list makes it return an empty *)
(* list.                                                                   *)
(***************************************************************************)
C12_RetrieveThrowsNewSwarm ==
  [][/\ (RetrieveGets(421) /\ qnode = "B" /\ qresult'.body.t = "objecttext"
           /\ qresult'.body.snodes = Arr(<<"C", "D">>))
        => (/\ qpc' = "done"
            /\ qout'.kind = "throw"
            /\ qout'.error = "WrongSwarmError"
            /\ qout'.newSwarm = <<"C", "D">>
            /\ qnode' = qnode
            /\ shared' = shared)
     /\ (RetrieveGets(200) /\ qresult'.body.t = "objecttext"
           /\ qresult'.body.messages = Arr(<<>>))
        => (qpc' = "done" /\ qout' = Returned(<<>>))]_vars

\* B answered 421 with [C, D] and the retrieve has thrown
C12_Witness ==
  /\ QueryEnded("retrieve")
  /\ qnode = "B"
  /\ qresult.t = "response"
  /\ qresult.status = 421
  /\ qresult.body.t = "objecttext"
  /\ qresult.body.snodes = Arr(<<"C", "D">>)
  /\ qout.error = "WrongSwarmError"

C20_PlaceholdersFiltered ==
  /\ QueryEnded("lookup")
       => /\ qout.kind = "return"
          /\ \A i \in 1..Len(qout.value) : qout.value[i].ip # "0.0.0.0"
          /\ (qresult.t = "response" /\ qresult.status = 200
                /\ qresult.body.t = "objecttext" /\ qresult.body.snodes.t = "array")
               => LET in == qresult.body.snodes.v
                  IN  IsListWithoutPlaceholders(qout.value, in,
                                                [i \in 1..Len(in) |-> in[i].ip])
  /\ (QueryEnded("seed") /\ qout.kind = "return")
       => /\ \A i \in 1..Len(qout.value) : qout.value[i].public_ip # "0.0.0.0"
          /\ (qresult.status = 200 /\ qresult.contentType = "application/json"
                /\ qresult.json.t = "states")
               => LET in == qresult.json.service_node_states
                  IN  IsListWithoutPlaceholders(qout.value, in,
                                                [i \in 1..Len(in) |-> in[i].public_ip])

\* the node answered a placeholder and a real record: the real one alone is returned
C20_Witness ==
  /\ QueryEnded("lookup")
  /\ qresult.t = "response"
  /\ qresult.status = 200
  /\ qresult.body.t = "objecttext"
  /\ qresult.body.snodes =
       Arr(<<[ip |-> "0.0.0.0", pubkey_ed25519 |-> "k1"],
             [ip |-> "1.1.1.1", pubkey_ed25519 |-> "k2"]>>)
  /\ qout = Returned(<<[ip |-> "1.1.1.1", pubkey_ed25519 |-> "k2"]>>)

(***************************************************************************)
(* C11, as claimed: from pool {A, B, C}, swarm [A, B] and cached           *)
(* difficulty 1, the first dispatch goes to A; when A refuses the          *)
(* connection, A leaves the pool and the swarm and the retry goes to B;    *)
(* when the node answers 200 with difficulty 2 the cached difficulty       *)
(* becomes 2 and the call reports success.                                 *)
(***************************************************************************)
C11_ScenarioEvictsAndMovesOn ==
  [][/\ (/\ pc = "settled"
         /\ targetNode = "A"
         /\ dispatches = 1
         /\ result.t \in {"false", "throw"}
         /\ pool = {"A", "B", "C"}
         /\ swarm = <<"A", "B">>)
        => (/\ pool' = {"B", "C"}
            /\ swarm' = <<"B">>
            /\ targetNode' = "B"
            /\ pc' = "sleeping")
     /\ (/\ pc = "settled"
         /\ difficulty = Num(1)
         /\ result.t = "response"
         /\ result.status = 200
         /\ result.body.t = "objecttext"
         /\ result.body.difficulty = Num(2))
        => (/\ difficulty' = Num(2)
            /\ outcome' = "true")]_vars

(***************************************************************************)
(* C15, as claimed: a getVersion probe issues at most 3 requests to the    *)
(* node before it gives up, and when it gives up with its retries          *)
(* exhausted the node has been marked unreachable.                         *)
(***************************************************************************)
C15_AtMostThreeRequests ==
  \A p \in Probes :
    /\ vrequests[p] <= 3
    /\ (vpc[p] = "done" /\ vout[p] = "false" /\ vcode[p] \notin {"none", "ECONNREFUSED"})
         => vnode[p] \notin pool

(***************************************************************************)
(* C15, amended: the ceiling 3 counts the retries.  On repeated retryable  *)
(* errors a getVersion probe issues at most 4 requests to the node, the    *)
(* first and 3 retries, before it gives up; when it gives up on such an    *)
(* error it has issued exactly 4 and the node has been marked unreachable. *)
(***************************************************************************)
C15_AtMostThreeRetries ==
  \A p \in Probes :
    /\ vrequests[p] <= SNODE_VERSION_RETRIES + 1
    /\ vretries[p] <= SNODE_VERSION_RETRIES
    /\ vpc[p] # "idle" => vrequests[p] = vretries[p] + 1
    /\ (vpc[p] = "done" /\ vout[p] = "false" /\ vcode[p] \notin {"none", "ECONNREFUSED"})
         => /\ vrequests[p] = SNODE_VERSION_RETRIES + 1
            /\ vnode[p] \notin pool

\* a probe has given up on a time-out after its fourth request
C15_Witness ==
  \E p \in Probes :
    /\ vpc[p] = "done"
    /\ vout[p] = "false"
    /\ vcode[p] = "ETIMEDOUT"
    /\ vrequests[p] = 4
    /\ vnode[p] \notin pool

C22_WrongSwarmReturnsFalse ==
  [][(Handling(421) /\ ObjectBody)
       => (/\ pc' = "done"
           /\ outcome' = "false"
           /\ swarm' = IF CarriesSwarm THEN result.body.snodes.v ELSE <<>>)]_vars

(***************************************************************************)
(* C23: within one storeOnNode call the target of the dispatches is the    *)
(* node the call was given; markUnreachableForPubkey is called at most     *)
(* once, for that node, and only by the pass that brings the failure       *)
(* counter to exactly 10; every other pass leaves the pool as it is and    *)
(* takes no node out of the swarm, so a call that returns true, returns    *)
(* false before the ceiling, or throws has evicted nothing.                *)
(***************************************************************************)
C23_EvictsOnlyTargetAtCeiling ==
  [][/\ pc \in {"sleeping", "awaiting", "settled"} => targetNode' = targetNode
     /\ evictions' <= 1
     /\ pc # "settled" => (evictions' = evictions \/ evictions' = 0) /\ pool' = pool
     /\ pc = "settled"
          => IF evictions' # evictions
             THEN /\ successiveFailures = MAX_ACCEPTABLE_FAILURES - 1
                  /\ successiveFailures' = MAX_ACCEPTABLE_FAILURES
                  /\ dispatches = MAX_ACCEPTABLE_FAILURES
                  /\ evictions = 0
                  /\ pool' = pool \ {targetNode}
                  /\ Range(swarm') = Range(swarm) \ {targetNode}
                  /\ pc' = "done"
                  /\ outcome' = "false"
             ELSE /\ pool' = pool
                  /\ (swarm' = swarm \/ Handling(421))
                  /\ successiveFailures' < MAX_ACCEPTABLE_FAILURES
                  /\ pc' = "done" => evictions' = 0]_vars

\* the call has given up after ten dispatches to A and A is out of pool and swarm
C23_Witness ==
  /\ pc = "done"
  /\ outcome = "false"
  /\ targetNode = "A"
  /\ dispatches = 10
  /\ successiveFailures = 10
  /\ evictions = 1
  /\ "A" \notin pool
  /\ "A" \notin Range(swarm)

(***************************************************************************)
(* C24, as claimed: whenever no getVersion fetch is in flight, the         *)
(* NODE_TLS_REJECT_UNAUTHORIZED flag is '1'.                               *)
(***************************************************************************)
C24_VerificationRestored ==
  (\A p \in Probes : vpc[p] # "fetching") => tls = "1"

(***************************************************************************)
(* C25, as claimed: retrieveNextMessages returns the empty list when the   *)
(* node answers 200 with a body that is not valid JSON, and it throws only *)
(* what snodeRpc threw or the error checkResponse raises for a 406, a 421  *)
(* or a 432.                                                               *)
(***************************************************************************)
C25_RetrieveThrowsOnlyNamedErrors ==
  QueryEnded("retrieve")
    => /\ (qresult.t = "response" /\ qresult.status = 200 /\ qresult.body.t = "invalid")
            => qout = Returned(<<>>)
       /\ qout.kind = "throw"
            => \/ qresult.t = "throw" /\ qout.error = qresult.error.name
               \/ /\ qresult.t = "response"
                  /\ \/ qresult.status = 406 /\ qout.error = "TimestampError"
                     \/ qresult.status = 421 /\ qout.error = "WrongSwarmError"
                     \/ qresult.status = 432 /\ qout.error = "WrongDifficultyError"

====
